---- MODULE Spec2Model ----
(***************************************************************************)
(* sm64gs2pc: conversion of GameShark code lines to C statements against   *)
(* the decompilation's declarations (DecompData), and the execution of    *)
(* the generated statements against the console's big-endian memory.      *)
(*                                                                         *)
(* Addresses are scaled down: AddrLimit stands for 2^32 (SizeInt = u32),   *)
(* RamBase for 0x80000000 and MaxOffset for the 24-bit offset of a code.   *)
(* 64-bit quantities (masks, shifted values) are 8-tuples of bytes, least  *)
(* significant byte first, because they exceed the checker's integers.     *)
(***************************************************************************)
EXTENDS Integers, Sequences, FiniteSets, TLC

\* ---------------------------------------------------------------- bounds
\* size of the address space (stands for 2^32)
AddrLimit == 32
\* greatest address offset a code line can carry (stands for 0xFFFFFF)
MaxOffset == 23
\* base added to a code's offset (stands for 0x80000000)
RamBase == 4
\* greatest address offset of the lines of a whole cheat
MaxPatchOffset == 7

Addrs == 0 .. (AddrLimit - 1)

\* ------------------------------------------------------------ typ::Type
TypeInt(s, n) == [k |-> "Int", signed |-> s, num_bytes |-> n]
TypeFloat == [k |-> "Float"]
TypeIgnored == [k |-> "Ignored"]
TypePointer(t) == [k |-> "Pointer", inner_type |-> t]
TypeArray(t, n) == [k |-> "Array", element_type |-> t, num_elements |-> n]
TypeStruct(nm) == [k |-> "Struct", name |-> nm]
TypeAnonStruct(fs) == [k |-> "AnonStruct", fields |-> fs]
StructField(o, nm, t) == [offset |-> o, name |-> nm, typ |-> t]

\* decl::Decl
DeclVar(a, nm, t) == [addr |-> a, name |-> nm, kind |-> "Var", typ |-> t]
DeclFn(a, nm) == [addr |-> a, name |-> nm, kind |-> "Fn", typ |-> TypeIgnored]

\* ------------------------------------------------- Result<T, ToPatchError>
Ok(v) == [t |-> "Ok", val |-> v]
Err(e) == [t |-> "Err", err |-> e]
\* the process aborts: division by zero, arithmetic overflow, runaway recursion
Panic(why) == [t |-> "Panic", why |-> why]

IsOk(r) == r.t = "Ok"

\* ------------------------------------------------------------ layouts
\* the fixture of the unit tests: A,B,C,D (1 byte), E,F (4), G,H (2), f0
add_int(a, n, nm) == DeclVar(a, nm, TypeInt(FALSE, n))
add_float(a, nm) == DeclVar(a, nm, TypeFloat)

FixtureBase == RamBase + 2

decomp_data ==
  [ decls |-> << add_int(FixtureBase, 1, "A"), add_int(FixtureBase + 1, 1, "B"),
                 add_int(FixtureBase + 2, 1, "C"), add_int(FixtureBase + 3, 1, "D"),
                 add_int(FixtureBase + 4, 4, "E"), add_int(FixtureBase + 8, 4, "F"),
                 add_int(FixtureBase + 12, 2, "G"), add_int(FixtureBase + 14, 2, "H"),
                 add_float(FixtureBase + 16, "f0") >>,
    structs |-> [nm \in {} |-> <<>>] ]

\* a function, a named struct with an array and an anonymous struct inside,
\* a pointer and an array of structs
StructS == << StructField(0, "a", TypeInt(TRUE, 2)),
              StructField(2, "b", TypeArray(TypeInt(FALSE, 1), 3)),
              StructField(5, "c", TypeInt(TRUE, 1)),
              StructField(6, "p", TypeAnonStruct(<< StructField(0, "x", TypeFloat),
                                                    StructField(4, "y", TypeInt(FALSE, 2)) >>)) >>
StructT == << StructField(0, "hi", TypeInt(FALSE, 1)),
              StructField(1, "lo", TypeInt(FALSE, 1)) >>

StructLayout ==
  [ decls |-> << DeclFn(RamBase, "func"),
                 DeclVar(RamBase + 4, "gS", TypeStruct("S")),
                 DeclVar(RamBase + 16, "gPtr", TypePointer(TypeInt(TRUE, 4))),
                 DeclVar(RamBase + 24, "gArr", TypeArray(TypeStruct("T"), 2)) >>,
    structs |-> [nm \in {"S", "T"} |-> IF nm = "S" THEN StructS ELSE StructT] ]

\* declarations separated by gaps, an ignored type, an 8-byte integer and a
\* struct missing from the registry
GapLayout ==
  [ decls |-> << add_int(RamBase + 2, 1, "A"),
                 add_int(RamBase + 6, 2, "B"),
                 DeclVar(RamBase + 10, "arr", TypeArray(TypeInt(TRUE, 2), 2)),
                 DeclVar(RamBase + 16, "ign", TypeIgnored),
                 DeclVar(RamBase + 17, "big", TypeInt(FALSE, 8)),
                 DeclVar(RamBase + 25, "m", TypeStruct("Missing")),
                 add_int(RamBase + 26, 1, "Z") >>,
    structs |-> [nm \in {} |-> <<>>] ]

\* an empty struct, a struct with ignored fields, an array of floats
\* followed at once by the next declaration, a struct that points to itself
\* and ends with an array, and an array of pointers to an ignored type
StructV == << StructField(0, "k", TypeInt(FALSE, 1)),
              StructField(1, "i", TypeIgnored),
              StructField(2, "j", TypeArray(TypeIgnored, 1)),
              StructField(3, "t", TypeInt(FALSE, 1)) >>
StructW == << StructField(0, "q", TypePointer(TypeStruct("W"))),
              StructField(8, "tail", TypeArray(TypeInt(FALSE, 1), 2)) >>

EdgeLayout ==
  [ decls |-> << DeclVar(RamBase, "gE", TypeStruct("Empty")),
                 DeclVar(RamBase + 1, "gV", TypeStruct("V")),
                 DeclVar(RamBase + 5, "fl", TypeArray(TypeFloat, 1)),
                 DeclVar(RamBase + 9, "gW", TypeStruct("W")),
                 DeclVar(RamBase + 20, "pa", TypeArray(TypePointer(TypeIgnored), 1)) >>,
    structs |-> [nm \in {"Empty", "V", "W"} |->
                   IF nm = "V" THEN StructV ELSE IF nm = "W" THEN StructW ELSE <<>>] ]

\* an array whose elements take no storage
ZeroLayout ==
  [ decls |-> << DeclVar(RamBase + 20, "z", TypeArray(TypeStruct("Empty"), 2)),
                 DeclVar(RamBase + 22, "n", TypeInt(FALSE, 1)) >>,
    structs |-> [nm \in {"Empty"} |-> << >>] ]

Layouts == {decomp_data, StructLayout, GapLayout, EdgeLayout, ZeroLayout}

\* ------------------------------------------------------ Size Calculator
RECURSIVE size_of_type(_, _)
RECURSIVE size_of_struct(_, _, _)

\* .sum() over Result: the first failing field ends the sum
SumSizes(head, rest) ==
  IF ~IsOk(head) THEN head
  ELSE IF ~IsOk(rest) THEN rest ELSE Ok(head.val + rest.val)

\* slip: the extent of the struct, the last field's offset plus its size
size_of_struct_by_extent(dd, fields, i) ==
  IF i > Len(fields) THEN Ok(0)
  ELSE SumSizes(Ok(fields[Len(fields)].offset),
                size_of_type(dd, fields[Len(fields)].typ))

\* the sum of the field sizes from field i on
size_of_struct(dd, fields, i) ==
  IF i > Len(fields) THEN Ok(0)
  ELSE SumSizes(size_of_type(dd, fields[i].typ), size_of_struct(dd, fields, i + 1))

\* .map(|size| size * num_elements)
MapTimes(size, num_elements) ==
  IF IsOk(size) THEN Ok(size.val * num_elements) ELSE size

\* slip: the pointer width of the console, 4 bytes
size_of_type_console_pointer(dd, typ) ==
  CASE typ.k = "AnonStruct" -> size_of_struct(dd, typ.fields, 1)
    [] typ.k = "Struct" ->
         IF typ.name \in DOMAIN dd.structs
         THEN size_of_struct(dd, dd.structs[typ.name], 1)
         ELSE Err([tag |-> "NoStruct", name |-> typ.name])
    [] typ.k = "Array" -> MapTimes(size_of_type(dd, typ.element_type), typ.num_elements)
    [] typ.k = "Int" -> Ok(typ.num_bytes)
    [] typ.k = "Pointer" -> Ok(4)
    [] typ.k = "Float" -> Ok(4)
    [] typ.k = "Ignored" -> Err([tag |-> "IgnoredType"])

size_of_type(dd, typ) ==
  CASE typ.k = "AnonStruct" -> size_of_struct(dd, typ.fields, 1)
    [] typ.k = "Struct" ->
         IF typ.name \in DOMAIN dd.structs
         THEN size_of_struct(dd, dd.structs[typ.name], 1)
         ELSE Err([tag |-> "NoStruct", name |-> typ.name])
    [] typ.k = "Array" -> MapTimes(size_of_type(dd, typ.element_type), typ.num_elements)
    [] typ.k = "Int" -> Ok(typ.num_bytes)
    [] typ.k = "Pointer" -> Ok(8)
    [] typ.k = "Float" -> Ok(4)
    [] typ.k = "Ignored" -> Err([tag |-> "IgnoredType"])

\* ----------------------------------------------------- Location Resolver
LeftValue(kind, typ, addr) == [kind |-> kind, typ |-> typ, addr |-> addr]
Ident(nm) == [k |-> "Ident", name |-> nm]
ArrayIndex(array, index) == [k |-> "ArrayIndex", array |-> array, index |-> index]
StructFieldAccess(s, nm) == [k |-> "StructField", struct_ |-> s, field_name |-> nm]

\* .iter().rev().find(..): the last of the indices that satisfy the
\* predicate, 0 when there is none
RevFind(hits) == IF hits = {} THEN 0 ELSE CHOOSE i \in hits : \A j \in hits : j <= i

RECURSIVE addr_accum_to_lvalue(_, _, _, _)

\* the field found (0: none), made the accumulator
FieldFound(dd, accum, addr, struct_, accum_addr, i) ==
  IF i = 0 THEN Err([tag |-> "NoField", addr |-> addr])
  ELSE addr_accum_to_lvalue(dd,
         LeftValue(StructFieldAccess(accum, struct_[i].name), struct_[i].typ,
                   accum_addr + struct_[i].offset),
         addr, accum_addr + struct_[i].offset)

\* slip: .find() without .rev(), the first field at or below the address
addr_and_struct_to_lvalue_first_field(dd, accum, addr, struct_, accum_addr) ==
  FieldFound(dd, accum, addr, struct_, accum_addr,
             IF \E j \in 1 .. Len(struct_) : accum_addr + struct_[j].offset <= addr
             THEN CHOOSE j \in 1 .. Len(struct_) :
                    /\ accum_addr + struct_[j].offset <= addr
                    /\ \A i \in 1 .. (j - 1) : accum_addr + struct_[i].offset > addr
             ELSE 0)

addr_and_struct_to_lvalue(dd, accum, addr, struct_, accum_addr) ==
  FieldFound(dd, accum, addr, struct_, accum_addr,
             RevFind({j \in 1 .. Len(struct_) : accum_addr + struct_[j].offset <= addr}))

\* slip: index > num_elements, the index equal to the count let through
ArrayElement_bound_inclusive(dd, accum, addr, accum_addr, element_type_size, index) ==
  IF index > accum.typ.num_elements
  THEN Err([tag |-> "ArrayOutOfBounds", addr |-> addr, lvalue |-> accum])
  ELSE addr_accum_to_lvalue(dd,
         LeftValue(ArrayIndex(accum, index), accum.typ.element_type,
                   accum_addr + index * element_type_size),
         addr, accum_addr + index * element_type_size)

\* the element at index, made the accumulator
ArrayElement(dd, accum, addr, accum_addr, element_type_size, index) ==
  IF index >= accum.typ.num_elements
  THEN Err([tag |-> "ArrayOutOfBounds", addr |-> addr, lvalue |-> accum])
  ELSE addr_accum_to_lvalue(dd,
         LeftValue(ArrayIndex(accum, index), accum.typ.element_type,
                   accum_addr + index * element_type_size),
         addr, accum_addr + index * element_type_size)

\* slip: the byte offset taken as the index, not divided by the element size
ArrayStep_offset_as_index(dd, accum, addr, accum_addr, element_type_size) ==
  IF ~IsOk(element_type_size) THEN element_type_size
  ELSE IF addr < accum_addr THEN Panic("subtract with overflow")
  ELSE ArrayElement(dd, accum, addr, accum_addr, element_type_size.val,
                    addr - accum_addr)

\* slip: the index wrapped around the count instead of being refused
ArrayStep_index_wrapped(dd, accum, addr, accum_addr, element_type_size) ==
  IF ~IsOk(element_type_size) THEN element_type_size
  ELSE IF addr < accum_addr THEN Panic("subtract with overflow")
  ELSE IF element_type_size.val = 0 THEN Panic("divide by zero")
  ELSE ArrayElement(dd, accum, addr, accum_addr, element_type_size.val,
                    IF accum.typ.num_elements = 0 THEN 0
                    ELSE ((addr - accum_addr) \div element_type_size.val)
                           % accum.typ.num_elements)

\* let index = (addr - accum_addr) / element_type_size
ArrayStep(dd, accum, addr, accum_addr, element_type_size) ==
  IF ~IsOk(element_type_size) THEN element_type_size
  ELSE IF addr < accum_addr THEN Panic("subtract with overflow")
  ELSE IF element_type_size.val = 0 THEN Panic("divide by zero")
  ELSE ArrayElement(dd, accum, addr, accum_addr, element_type_size.val,
                    (addr - accum_addr) \div element_type_size.val)

\* slip: Type::Pointer taken into the arm of Type::Int and Type::Float
addr_accum_to_lvalue_pointer_as_cell(dd, accum, addr, accum_addr) ==
  CASE accum.typ.k = "AnonStruct" ->
         addr_and_struct_to_lvalue(dd, accum, addr, accum.typ.fields, accum_addr)
    [] accum.typ.k = "Struct" ->
         IF accum.typ.name \in DOMAIN dd.structs
         THEN addr_and_struct_to_lvalue(dd, accum, addr, dd.structs[accum.typ.name],
                                        accum_addr)
         ELSE Err([tag |-> "NoStruct", name |-> accum.typ.name])
    [] accum.typ.k \in {"Int", "Float", "Pointer"} -> Ok(accum)
    [] accum.typ.k = "Array" ->
         ArrayStep(dd, accum, addr, accum_addr,
                   size_of_type(dd, accum.typ.element_type))
    [] accum.typ.k = "Ignored" -> Err([tag |-> "IgnoredType"])

\* slip: Type::Ignored treated as unreachable!() instead of an error value
addr_accum_to_lvalue_ignored_unreachable(dd, accum, addr, accum_addr) ==
  CASE accum.typ.k = "AnonStruct" ->
         addr_and_struct_to_lvalue(dd, accum, addr, accum.typ.fields, accum_addr)
    [] accum.typ.k = "Struct" ->
         IF accum.typ.name \in DOMAIN dd.structs
         THEN addr_and_struct_to_lvalue(dd, accum, addr, dd.structs[accum.typ.name],
                                        accum_addr)
         ELSE Err([tag |-> "NoStruct", name |-> accum.typ.name])
    [] accum.typ.k \in {"Int", "Float"} -> Ok(accum)
    [] accum.typ.k = "Array" ->
         ArrayStep(dd, accum, addr, accum_addr,
                   size_of_type(dd, accum.typ.element_type))
    [] accum.typ.k = "Pointer" -> Err([tag |-> "PointerAssign", addr |-> addr])
    [] accum.typ.k = "Ignored" -> Panic("unreachable")

addr_accum_to_lvalue(dd, accum, addr, accum_addr) ==
  CASE accum.typ.k = "AnonStruct" ->
         addr_and_struct_to_lvalue(dd, accum, addr, accum.typ.fields, accum_addr)
    [] accum.typ.k = "Struct" ->
         IF accum.typ.name \in DOMAIN dd.structs
         THEN addr_and_struct_to_lvalue(dd, accum, addr, dd.structs[accum.typ.name],
                                        accum_addr)
         ELSE Err([tag |-> "NoStruct", name |-> accum.typ.name])
    [] accum.typ.k \in {"Int", "Float"} -> Ok(accum)
    [] accum.typ.k = "Array" ->
         ArrayStep(dd, accum, addr, accum_addr,
                   size_of_type(dd, accum.typ.element_type))
    [] accum.typ.k = "Pointer" -> Err([tag |-> "PointerAssign", addr |-> addr])
    [] accum.typ.k = "Ignored" -> Err([tag |-> "IgnoredType"])

\* slip: a function refused only at its first address
DeclFound_fn_at_start_only(dd, addr, i) ==
  IF i = 0 THEN Err([tag |-> "NoDecl", addr |-> addr])
  ELSE IF dd.decls[i].kind = "Fn" /\ dd.decls[i].addr = addr
  THEN Err([tag |-> "FnPatch", addr |-> addr])
  ELSE addr_accum_to_lvalue(dd,
         LeftValue(Ident(dd.decls[i].name), dd.decls[i].typ, dd.decls[i].addr),
         addr, dd.decls[i].addr)

\* the declaration found (0: none), made the initial accumulator
DeclFound(dd, addr, i) ==
  IF i = 0 THEN Err([tag |-> "NoDecl", addr |-> addr])
  ELSE IF dd.decls[i].kind = "Fn" THEN Err([tag |-> "FnPatch", addr |-> addr])
  ELSE addr_accum_to_lvalue(dd,
         LeftValue(Ident(dd.decls[i].name), dd.decls[i].typ, dd.decls[i].addr),
         addr, dd.decls[i].addr)

\* slip: .find() without .rev(), the first declaration at or below the address
addr_to_lvalue_first_decl(dd, addr) ==
  DeclFound(dd, addr,
            IF \E j \in 1 .. Len(dd.decls) : dd.decls[j].addr <= addr
            THEN CHOOSE j \in 1 .. Len(dd.decls) :
                   /\ dd.decls[j].addr <= addr
                   /\ \A i \in 1 .. (j - 1) : dd.decls[i].addr > addr
            ELSE 0)

addr_to_lvalue(dd, addr) ==
  DeclFound(dd, addr, RevFind({j \in 1 .. Len(dd.decls) : dd.decls[j].addr <= addr}))

\* ------------------------------------------------------- u64 arithmetic
\* a u64 is a tuple of 8 bytes, index 1 the least significant
ByteIdx == 1 .. 8
Pow2(n) == 2 ^ n

\* widening of a u8 / u16 value (value as u64)
ToU64(n) == [i \in ByteIdx |-> IF i = 1 THEN n % 256
                               ELSE IF i = 2 THEN (n \div 256) % 256 ELSE 0]
ByteAt(x, i) == IF i \in ByteIdx THEN x[i] ELSE 0

\* x << shift for shift < 64; bits shifted past bit 63 are lost
Shl(x, shift) ==
  [i \in ByteIdx |-> ((ByteAt(x, i - (shift \div 8)) * Pow2(shift % 8)) % 256)
                     + (ByteAt(x, i - (shift \div 8) - 1) \div Pow2(8 - (shift % 8)))]

\* !x
Not(x) == [i \in ByteIdx |-> 255 - x[i]]

RECURSIVE BitAnd(_, _)
BitAnd(a, b) == IF a = 0 \/ b = 0 THEN 0
                ELSE (a % 2) * (b % 2) + 2 * BitAnd(a \div 2, b \div 2)
BitOr(a, b) == a + b - BitAnd(a, b)

\* x & y and x | y
And64(x, y) == [i \in ByteIdx |-> BitAnd(x[i], y[i])]
Or64(x, y) == [i \in ByteIdx |-> BitOr(x[i], y[i])]

\* -------------------------------------------------- gameshark::ValueSize
ValueSizes == {"Bits8", "Bits16"}
num_bytes(value_size) == IF value_size = "Bits8" THEN 1 ELSE 2
\* slip: the 8-bit mask for both sizes
mask_of_one_byte(value_size) == 255
mask(value_size) == IF value_size = "Bits8" THEN 255 ELSE 65535

\* --------------------------------------------------- Code-Line Generator
Some(v) == [some |-> TRUE, v |-> v]
None == [some |-> FALSE, v |-> 0]

\* slip: the shift counted from the low address (little-endian)
CheckedShift_from_low_address(lvalue_size, lvalue, value_size, addr) ==
  IF ~IsOk(lvalue_size) THEN lvalue_size
  ELSE IF addr < lvalue.addr THEN Panic("subtract with overflow")
  ELSE IF lvalue_size.val >= num_bytes(value_size)
          /\ lvalue_size.val - num_bytes(value_size) >= addr - lvalue.addr
       THEN Ok(Some((addr - lvalue.addr) * 8))
       ELSE Ok(None)

\* lvalue_size.checked_sub(num_bytes).and_then(|d| d.checked_sub(addr - lvalue.addr))
\*            .map(|d| d * 8)
CheckedShift(lvalue_size, lvalue, value_size, addr) ==
  IF ~IsOk(lvalue_size) THEN lvalue_size
  ELSE IF addr < lvalue.addr THEN Panic("subtract with overflow")
  ELSE IF lvalue_size.val >= num_bytes(value_size)
          /\ lvalue_size.val - num_bytes(value_size) >= addr - lvalue.addr
       THEN Ok(Some((lvalue_size.val - num_bytes(value_size) - (addr - lvalue.addr)) * 8))
       ELSE Ok(None)

lvalue_get_shift(dd, lvalue, value_size, addr) ==
  CheckedShift(size_of_type(dd, lvalue.typ), lvalue, value_size, addr)

\* the pieces of generated text
\* "{} = ({} & {:#x}) | {:#x};"
WriteStmt(lvalue, and_mask, or_value) ==
  [k |-> "write", lvalue |-> lvalue, and_mask |-> and_mask, or_value |-> or_value]
\* "if (({} & {:#x}) {} {:#x})"
CheckStmt(lvalue, and_mask, cmp, value) ==
  [k |-> "if", lvalue |-> lvalue, and_mask |-> and_mask, cmp |-> cmp, value |-> value]
\* the " " of format!(" {}", s)
Space == [k |-> "space"]

\* format!("{}{}", statement, next) where next is " {}" of the second
\* statement; an error of the recursion is returned as it is
ThenNext(statement, next) ==
  IF ~IsOk(next) THEN next ELSE Ok(<< statement >> \o << Space >> \o next.val)

\* slip: the statement of the next address placed before the current one
ThenNextCheck_next_first(statement, next) ==
  IF ~IsOk(next) THEN next ELSE Ok(next.val \o << Space >> \o << statement >>)
ThenNextCheck(statement, next) == ThenNext(statement, next)

RECURSIVE format_write(_, _, _, _)

\* the match on the shift in format_write
WriteShifted(dd, write_size, value, addr, lvalue, shift) ==
  IF ~IsOk(shift) THEN shift
  ELSE IF shift.val.some
  THEN IF shift.val.v >= 64 THEN Panic("shift left with overflow")
       ELSE Ok(<< WriteStmt(lvalue,
                            Not(Shl(ToU64(mask(write_size)), shift.val.v)),
                            Shl(ToU64(value), shift.val.v)) >>)
  ELSE IF addr + 1 >= AddrLimit THEN Panic("add with overflow")
  ELSE ThenNext(WriteStmt(lvalue,
                          Not(Shl(ToU64(mask("Bits8")), 0)),
                          Shl(ToU64(value \div 256), 0)),
                format_write(dd, "Bits8", value % 256, addr + 1))

WriteResolved(dd, write_size, value, addr, lvalue) ==
  IF ~IsOk(lvalue) THEN lvalue
  ELSE WriteShifted(dd, write_size, value, addr, lvalue.val,
                    lvalue_get_shift(dd, lvalue.val, write_size, addr))

format_write(dd, write_size, value, addr) ==
  WriteResolved(dd, write_size, value, addr, addr_to_lvalue(dd, addr))

RECURSIVE format_check(_, _, _, _, _)

CmpOf(check_eq) == IF check_eq THEN "==" ELSE "!="

\* the match on the shift in format_check
CheckShifted(dd, read_size, value, addr, check_eq, lvalue, shift) ==
  IF ~IsOk(shift) THEN shift
  ELSE IF shift.val.some
  THEN IF shift.val.v >= 64 THEN Panic("shift left with overflow")
       ELSE Ok(<< CheckStmt(lvalue,
                            Shl(ToU64(mask(read_size)), shift.val.v),
                            CmpOf(check_eq),
                            Shl(ToU64(value), shift.val.v)) >>)
  ELSE IF addr + 1 >= AddrLimit THEN Panic("add with overflow")
  ELSE ThenNextCheck(CheckStmt(lvalue,
                               Shl(ToU64(mask("Bits8")), 0),
                               CmpOf(check_eq),
                               Shl(ToU64(value \div 256), 0)),
                     format_check(dd, "Bits8", value % 256, addr + 1, check_eq))

CheckResolved(dd, read_size, value, addr, check_eq, lvalue) ==
  IF ~IsOk(lvalue) THEN lvalue
  ELSE CheckShifted(dd, read_size, value, addr, check_eq, lvalue.val,
                    lvalue_get_shift(dd, lvalue.val, read_size, addr))

format_check(dd, read_size, value, addr, check_eq) ==
  CheckResolved(dd, read_size, value, addr, check_eq, addr_to_lvalue(dd, addr))

\* ------------------------------------------------- the generated text
\* text is a sequence of pieces: [s |-> literal or name], [n |-> number],
\* [x |-> 64-bit value printed with {:#x}]
RECURSIVE LeftValueText(_)
RECURSIVE LeftValueKindText(_)

\* impl Display for LeftValueKind; the array and the struct_ are LeftValues
LeftValueKindText(kind) ==
  CASE kind.k = "Ident" -> << [s |-> kind.name] >>
    [] kind.k = "ArrayIndex" ->
         LeftValueText(kind.array) \o << [s |-> "["], [n |-> kind.index], [s |-> "]"] >>
    [] kind.k = "StructField" ->
         LeftValueText(kind.struct_) \o << [s |-> "."], [s |-> kind.field_name] >>

\* slip: the reinterpretation applied to every 4-byte cell
LeftValueText_wrap_four_bytes(lvalue) ==
  IF lvalue.typ = TypeFloat \/ (lvalue.typ.k = "Int" /\ lvalue.typ.num_bytes = 4)
  THEN << [s |-> "*(uint32_t *) &"] >> \o LeftValueKindText(lvalue.kind)
  ELSE LeftValueKindText(lvalue.kind)

\* impl Display for LeftValue
LeftValueText(lvalue) ==
  IF lvalue.typ = TypeFloat
  THEN << [s |-> "*(uint32_t *) &"] >> \o LeftValueKindText(lvalue.kind)
  ELSE LeftValueKindText(lvalue.kind)

\* "{} = ({} & {:#x}) | {:#x};" and "if (({} & {:#x}) {} {:#x})"
StatementText(st) ==
  IF st.k = "write"
  THEN LeftValueText(st.lvalue) \o << [s |-> " = ("] >> \o LeftValueText(st.lvalue)
       \o << [s |-> " & "], [x |-> st.and_mask], [s |-> ") | "], [x |-> st.or_value],
             [s |-> ";"] >>
  ELSE << [s |-> "if (("] >> \o LeftValueText(st.lvalue)
       \o << [s |-> " & "], [x |-> st.and_mask], [s |-> ") "], [s |-> st.cmp],
             [s |-> " "], [x |-> st.value], [s |-> ")"] >>

\* ------------------------------------------------ gameshark::CodeLine
WriteOps == {"Write8", "Write16"}
CheckOps == {"IfEq8", "IfEq16", "IfNotEq8", "IfNotEq16"}
CodeLine(op, addr, value) == [op |-> op, addr |-> addr, value |-> value]
OpSize(op) == IF op \in {"Write8", "IfEq8", "IfNotEq8"} THEN "Bits8" ELSE "Bits16"

\* ------------------------------------------------ gameshark: the parser
\* text is a sequence of characters, each a string of one character
HexUpper == << "0", "1", "2", "3", "4", "5", "6", "7",
               "8", "9", "A", "B", "C", "D", "E", "F" >>
HexLower == << "0", "1", "2", "3", "4", "5", "6", "7",
               "8", "9", "a", "b", "c", "d", "e", "f" >>

\* char::to_digit(16): the value of a digit of either case, 16 for any other
\* character
to_digit(c) ==
  IF \E i \in 1 .. 16 : HexUpper[i] = c \/ HexLower[i] = c
  THEN (CHOOSE i \in 1 .. 16 : HexUpper[i] = c \/ HexLower[i] = c) - 1
  ELSE 16

is_whitespace(c) == c \in {" ", "\t", "\n", "\r"}

\* str::len counts bytes: a character outside ASCII takes more than one
len_utf8(c) == IF c = "é" THEN 2 ELSE 1
RECURSIVE len(_)
len(s) == IF s = << >> THEN 0 ELSE len_utf8(Head(s)) + len(Tail(s))

\* str::split_whitespace: the maximal runs of characters that are not
\* whitespace; cur is the run being read at position i
RECURSIVE SplitFrom(_, _, _)
SplitFrom(s, i, cur) ==
  IF i > Len(s) THEN (IF cur = << >> THEN << >> ELSE << cur >>)
  ELSE IF is_whitespace(s[i])
       THEN (IF cur = << >> THEN << >> ELSE << cur >>) \o SplitFrom(s, i + 1, << >>)
       ELSE SplitFrom(s, i + 1, Append(cur, s[i]))
split_whitespace(s) == SplitFrom(s, 1, << >>)

FormatError == [tag |-> "FormatError"]
CodeTypeError == [tag |-> "CodeTypeError"]
ParseIntError(kind) == [tag |-> "ParseIntError", source |-> kind]

\* the digits of an unsigned number, most significant first, or the error
FromDigits(digits) ==
  IF digits = << >> THEN Err(ParseIntError("Empty"))
  ELSE IF \E i \in 1 .. Len(digits) : to_digit(digits[i]) = 16
       THEN Err(ParseIntError("InvalidDigit"))
       ELSE Ok([i \in 1 .. Len(digits) |-> to_digit(digits[i])])

\* uN::from_str_radix(src, 0x10): one leading "+" is not a digit of the number
from_str_radix(src) ==
  IF src = << >> THEN Err(ParseIntError("Empty"))
  ELSE IF src = << "+" >> THEN Err(ParseIntError("InvalidDigit"))
  ELSE IF src[1] = "+" THEN FromDigits(Tail(src))
  ELSE FromDigits(src)

\* the number written by the digits i .. j
RECURSIVE NumberOf(_, _, _)
NumberOf(digits, i, j) ==
  IF j < i THEN 0 ELSE NumberOf(digits, i, j - 1) * 16 + digits[j]

\* the eight hex digits of a 32-bit number of at most eight digits
Nibbles(digits) ==
  [i \in 1 .. 8 |-> IF i <= 8 - Len(digits) THEN 0 ELSE digits[i - (8 - Len(digits))]]

\* a variant in which a code type outside the table is an 8-bit write
OfCodeType_unknown_as_write8(code_type, addr, value16) ==
  CASE code_type = 129 -> Ok(CodeLine("Write16", addr, value16))
    [] code_type = 208 -> Ok(CodeLine("IfEq8", addr, value16 % 256))
    [] code_type = 209 -> Ok(CodeLine("IfEq16", addr, value16))
    [] code_type = 210 -> Ok(CodeLine("IfNotEq8", addr, value16 % 256))
    [] code_type = 211 -> Ok(CodeLine("IfNotEq16", addr, value16))
    [] OTHER -> Ok(CodeLine("Write8", addr, value16 % 256))

\* match code_type { ... }, value8 = value16 as u8
OfCodeType(code_type, addr, value16) ==
  CASE code_type = 128 -> Ok(CodeLine("Write8", addr, value16 % 256))
    [] code_type = 129 -> Ok(CodeLine("Write16", addr, value16))
    [] code_type = 208 -> Ok(CodeLine("IfEq8", addr, value16 % 256))
    [] code_type = 209 -> Ok(CodeLine("IfEq16", addr, value16))
    [] code_type = 210 -> Ok(CodeLine("IfNotEq8", addr, value16 % 256))
    [] code_type = 211 -> Ok(CodeLine("IfNotEq16", addr, value16))
    [] OTHER -> Err(CodeTypeError)

\* a variant in which the address keeps the low digit of the code type
Extracted_address_of_seven_digits(type_addr, value16) ==
  OfCodeType(NumberOf(type_addr, 1, 2), NumberOf(type_addr, 2, 8), value16)

\* code_type = type_addr >> (8 * 3), addr = type_addr & 0x00FFFFFF
Extracted(type_addr, value16) ==
  OfCodeType(NumberOf(type_addr, 1, 2), NumberOf(type_addr, 3, 8), value16)

Parsed(type_addr, value) ==
  IF ~IsOk(type_addr) THEN type_addr
  ELSE IF ~IsOk(value) THEN value
  ELSE Extracted(Nibbles(type_addr.val), NumberOf(value.val, 1, Len(value.val)))

FromTokens(tokens) ==
  IF Len(tokens) # 2 THEN Err(FormatError)
  ELSE IF len(tokens[1]) # 8 THEN Err(FormatError)
  ELSE IF len(tokens[2]) # 4 THEN Err(FormatError)
  ELSE Parsed(from_str_radix(tokens[1]), from_str_radix(tokens[2]))

\* impl FromStr for CodeLine
CodeLine_from_str(s) == FromTokens(split_whitespace(s))

\* {:0wX}: the uppercase hex digits of n, at least width of them
RECURSIVE UpperHex(_, _)
UpperHex(n, width) ==
  IF n < 16 /\ width <= 1 THEN << HexUpper[n + 1] >>
  ELSE UpperHex(n \div 16, width - 1) \o << HexUpper[(n % 16) + 1] >>

CodeTypeText(op) ==
  CASE op = "Write8" -> << "8", "0" >>
    [] op = "Write16" -> << "8", "1" >>
    [] op = "IfEq8" -> << "D", "0" >>
    [] op = "IfEq16" -> << "D", "1" >>
    [] op = "IfNotEq8" -> << "D", "2" >>
    [] op = "IfNotEq16" -> << "D", "3" >>

\* impl fmt::Display for CodeLine
CodeLine_fmt(code) ==
  CodeTypeText(code.op) \o UpperHex(code.addr, 6) \o << " " >> \o UpperHex(code.value, 4)

\* str::lines: the text between line feeds, without the carriage return that
\* precedes a line feed; a last line needs no line feed
StripCr(line) ==
  IF line # << >> /\ line[Len(line)] = "\r" THEN SubSeq(line, 1, Len(line) - 1) ELSE line
RECURSIVE LinesFrom(_, _, _)
LinesFrom(s, i, cur) ==
  IF i > Len(s) THEN (IF cur = << >> THEN << >> ELSE << cur >>)
  ELSE IF s[i] = "\n" THEN << StripCr(cur) >> \o LinesFrom(s, i + 1, << >>)
  ELSE LinesFrom(s, i + 1, Append(cur, s[i]))
str_lines(s) == LinesFrom(s, 1, << >>)

\* str::trim
RECURSIVE trim_start(_)
trim_start(s) ==
  IF s # << >> /\ is_whitespace(Head(s)) THEN trim_start(Tail(s)) ELSE s
RECURSIVE trim_end(_)
trim_end(s) ==
  IF s # << >> /\ is_whitespace(s[Len(s)]) THEN trim_end(SubSeq(s, 1, Len(s) - 1)) ELSE s
trim(s) == trim_end(trim_start(s))

\* a variant in which the error of a later line is reported first
Gathered_later_error_first(line, rest) ==
  IF ~IsOk(rest) THEN rest
  ELSE IF ~IsOk(line) THEN line
  ELSE Ok(<< line.val >> \o rest.val)

\* collect::<Result<Vec<CodeLine>, ParseError>>(): the first error ends it
Gathered(line, rest) ==
  IF ~IsOk(line) THEN line
  ELSE IF ~IsOk(rest) THEN rest
  ELSE Ok(<< line.val >> \o rest.val)

\* .map(trim).filter(!is_empty).map(parse)
RECURSIVE ParseLines(_, _)
ParseLines(ls, i) ==
  IF i > Len(ls) THEN Ok(<< >>)
  ELSE IF trim(ls[i]) = << >> THEN ParseLines(ls, i + 1)
  ELSE Gathered(CodeLine_from_str(trim(ls[i])), ParseLines(ls, i + 1))

\* impl FromStr for Code
Code_from_str(s) == ParseLines(str_lines(s), 1)

\* ----------------------------------------------------- Patch Assembler
\* format!("/* {} */ {}", code, c_source)
Commented(code, c_source) ==
  IF ~IsOk(c_source) THEN c_source
  ELSE Ok([comment |-> CodeLine_fmt(code), c_source |-> c_source.val])

gs_line_to_c(dd, code) ==
  Commented(code,
    CASE code.op = "Write8" -> format_write(dd, "Bits8", code.value, code.addr + RamBase)
      [] code.op = "Write16" -> format_write(dd, "Bits16", code.value, code.addr + RamBase)
      [] code.op = "IfEq8" ->
           format_check(dd, "Bits8", code.value, code.addr + RamBase, TRUE)
      [] code.op = "IfEq16" ->
           format_check(dd, "Bits16", code.value, code.addr + RamBase, TRUE)
      [] code.op = "IfNotEq8" ->
           format_check(dd, "Bits8", code.value, code.addr + RamBase, FALSE)
      [] code.op = "IfNotEq16" ->
           format_check(dd, "Bits16", code.value, code.addr + RamBase, FALSE))

\* format!("    {}", line) as an added line of the hunk, before the lines
\* collected for the rest of the code; the first error ends the collection
Collected(line, rest) ==
  IF ~IsOk(line) THEN line
  ELSE IF ~IsOk(rest) THEN rest
  ELSE Ok(<< [k |-> "Add", indent |-> 4, text |-> line.val] >> \o rest.val)

\* .map(gs_line_to_c).collect::<Result<Vec<String>, ToPatchError>>()
RECURSIVE CollectLines(_, _, _)
CollectLines(dd, code, i) ==
  IF i > Len(code) THEN Ok(<<>>)
  ELSE Collected(gs_line_to_c(dd, code[i]), CollectLines(dd, code, i + 1))

\* a variant in which the new range counts the added lines only
Hunk_count_added_only(lines) ==
  [old_range |-> [start |-> 4, count |-> 2],
   new_range |-> [start |-> 4, count |-> Len(lines) - 2],
   lines |-> lines]

\* the hunk around the cheat lines
Hunk(lines) ==
  [old_range |-> [start |-> 4, count |-> 2],
   new_range |-> [start |-> 4, count |-> Len(lines)],
   lines |-> lines]

PatchOf(name, cheat_lines) ==
  IF ~IsOk(cheat_lines) THEN cheat_lines
  ELSE Ok(Hunk(<< [k |-> "Context", text |-> "void run_gameshark_cheats(void) {"],
                  [k |-> "Add", indent |-> 0, text |-> ""],
                  [k |-> "Add", indent |-> 4, text |-> [name_comment |-> name]] >>
               \o cheat_lines.val
               \o << [k |-> "Context", text |-> ""] >>))

gs_code_to_patch(dd, name, code) == PatchOf(name, CollectLines(dd, code, 1))

\* the statements of a patch, in the order of the text
RECURSIVE PatchStatements(_, _)
PatchStatements(lines, i) ==
  IF i > Len(lines) THEN <<>>
  ELSE (IF lines[i].k = "Add" /\ lines[i].indent = 4 /\ "c_source" \in DOMAIN lines[i].text
        THEN lines[i].text.c_source ELSE <<>>)
       \o PatchStatements(lines, i + 1)

\* ------------------------------------------- the generated C, executed
\* bytes of the storage cell named by an lvalue (an integer or a float read
\* through uint32_t)
CellSize(lvalue) == IF lvalue.typ.k = "Float" THEN 4 ELSE lvalue.typ.num_bytes

\* the cell's value on the big-endian console, widened to 64 bits
ReadCell(m, lvalue) ==
  LET s == CellSize(lvalue)
  IN [i \in ByteIdx |-> IF i <= s THEN m[lvalue.addr + s - i] ELSE 0]

\* assignment to the cell: the low bytes of x, most significant byte first
StoreCell(m, lvalue, x) ==
  LET s == CellSize(lvalue)
  IN [a \in DOMAIN m |-> IF lvalue.addr <= a /\ a < lvalue.addr + s
                         THEN x[s - (a - lvalue.addr)] ELSE m[a]]

\* L = (L & M) | V;
ExecWrite(m, st) ==
  StoreCell(m, st.lvalue, Or64(And64(ReadCell(m, st.lvalue), st.and_mask), st.or_value))

\* (L & M) == V, (L & M) != V
EvalCheck(m, st) ==
  LET lhs == And64(ReadCell(m, st.lvalue), st.and_mask)
  IN IF st.cmp = "==" THEN lhs = st.value ELSE lhs # st.value

\* C: an if without braces governs the one statement that follows it, which
\* may itself be an if; guard tells whether the statement at i is reached
RECURSIVE ExecFrom(_, _, _, _)
ExecFrom(prog, i, guard, m) ==
  IF i > Len(prog) THEN m
  ELSE CASE prog[i].k = "space" -> ExecFrom(prog, i + 1, guard, m)
         [] prog[i].k = "if" -> ExecFrom(prog, i + 1, guard /\ EvalCheck(m, prog[i]), m)
         [] prog[i].k = "write" ->
              ExecFrom(prog, i + 1, TRUE, IF guard THEN ExecWrite(m, prog[i]) ELSE m)

Exec(prog, m) == ExecFrom(prog, 1, TRUE, m)

\* ------------------------------------------------------ the state machine
VARIABLES dd, mem, mem0, op, out, phase
vars == << dd, mem, mem0, op, out, phase >>

\* bytes a value can take in a code line
Values16 == {65535, 65280, 43981}
Values8 == {255, 0, 205}
ValuesOf(size) == IF size = "Bits8" THEN Values8 ELSE Values16
Offsets == 0 .. MaxOffset
Names == {"Cheat"}

\* memory images: every byte 0xFF, and bytes that all differ
Memories == { [a \in Addrs |-> 255], [a \in Addrs |-> (a * 37 + 11) % 256] }

Init ==
  /\ dd \in Layouts
  /\ mem \in Memories
  /\ mem0 = mem
  /\ op = [name |-> "none"]
  /\ out = [t |-> "none"]
  /\ phase = "idle"

Resolve ==
  \E addr \in RamBase .. (AddrLimit - 1) :
    /\ phase = "idle"
    /\ op' = [name |-> "addr_to_lvalue", addr |-> addr]
    /\ out' = addr_to_lvalue(dd, addr)
    /\ phase' = "done"
    /\ UNCHANGED << dd, mem, mem0 >>

FormatWrite ==
  \E size \in ValueSizes, off \in Offsets :
    \E value \in ValuesOf(size) :
      /\ phase = "idle"
      /\ op' = [name |-> "format_write", size |-> size, value |-> value,
                addr |-> off + RamBase]
      /\ out' = format_write(dd, size, value, off + RamBase)
      /\ phase' = IF IsOk(out') THEN "emitted" ELSE "done"
      /\ UNCHANGED << dd, mem, mem0 >>

FormatCheck ==
  \E size \in ValueSizes, off \in Offsets, check_eq \in BOOLEAN :
    \E value \in ValuesOf(size) :
      /\ phase = "idle"
      /\ op' = [name |-> "format_check", size |-> size, value |-> value,
                addr |-> off + RamBase, check_eq |-> check_eq]
      /\ out' = format_check(dd, size, value, off + RamBase, check_eq)
      /\ phase' = "done"
      /\ UNCHANGED << dd, mem, mem0 >>

\* the types a size can be asked of: every type that occurs in the layout,
\* and types that do not occur in it
RECURSIVE SubTypes(_)
SubTypes(typ) ==
  {typ} \cup CASE typ.k = "Array" -> SubTypes(typ.element_type)
               [] typ.k = "Pointer" -> SubTypes(typ.inner_type)
               [] typ.k = "AnonStruct" ->
                    UNION { SubTypes(typ.fields[i].typ) : i \in 1 .. Len(typ.fields) }
               [] OTHER -> {}
ExtraTypes ==
  { TypePointer(TypeIgnored),
    TypeArray(TypeArray(TypeInt(TRUE, 2), 3), 2),
    TypeArray(TypeStruct("Missing"), 2),
    TypeArray(TypeIgnored, 0),
    TypeAnonStruct(<< StructField(0, "u", TypeInt(FALSE, 1)),
                      StructField(4, "v", TypeInt(FALSE, 2)) >>),
    TypeAnonStruct(<< StructField(0, "q", TypePointer(TypeIgnored)),
                      StructField(8, "f", TypeArray(TypeFloat, 2)) >>),
    TypeAnonStruct(<< StructField(0, "m", TypeStruct("Missing")),
                      StructField(1, "i", TypeIgnored) >>),
    TypeAnonStruct(<< StructField(0, "f", TypeFloat),
                      StructField(4, "s", TypeAnonStruct(<< StructField(0, "i", TypeIgnored) >>)) >>) }
TypesOf(d) ==
  UNION { SubTypes(d.decls[j].typ) : j \in {i \in 1 .. Len(d.decls) : d.decls[i].kind = "Var"} }
  \cup UNION { UNION { SubTypes(d.structs[nm][i].typ) : i \in 1 .. Len(d.structs[nm]) }
               : nm \in DOMAIN d.structs }
  \cup { TypeStruct(nm) : nm \in DOMAIN d.structs }
  \cup UNION { SubTypes(t) : t \in ExtraTypes }

SizeOfType ==
  \E typ \in TypesOf(dd) :
    /\ phase = "idle"
    /\ op' = [name |-> "size_of_type", typ |-> typ]
    /\ out' = size_of_type(dd, typ)
    /\ phase' = "done"
    /\ UNCHANGED << dd, mem, mem0 >>

\* cheats: one line, or a check line followed by a write line
CodeLines(ops, values16, values8) ==
  UNION { { CodeLine(o, a, v) : a \in 0 .. MaxPatchOffset,
                                v \in IF OpSize(o) = "Bits8" THEN values8 ELSE values16 }
          : o \in ops }
Codes ==
  { << l >> : l \in CodeLines(WriteOps \cup CheckOps, Values16, Values8) }
  \cup { << c, w >> : c \in CodeLines(CheckOps, Values16, Values8),
                      w \in CodeLines(WriteOps, {43981}, {205}) }

GsCodeToPatch ==
  \E name \in Names, code \in Codes :
    /\ phase = "idle"
    /\ op' = [name |-> "gs_code_to_patch", cheat |-> name, code |-> code]
    /\ out' = gs_code_to_patch(dd, name, code)
    /\ phase' = IF IsOk(out') THEN "emitted" ELSE "done"
    /\ UNCHANGED << dd, mem, mem0 >>

\* the texts of one code line: every code type with one address and value,
\* and tokens of either case, with a sign, of a wrong length or with a
\* character that is no digit, separated and surrounded by whitespace
TypeTexts == { << HexUpper[i], HexUpper[j] >> : i \in 1 .. 16, j \in 1 .. 16 }
FirstTokens ==
  { << "8", "0", "0", "0", "0", "0", "0", "3" >>,
    << "8", "1", "0", "0", "0", "0", "0", "a" >>,
    << "d", "2", "0", "0", "0", "0", "0", "5" >>,
    << "D", "1", "F", "f", "F", "f", "F", "e" >>,
    << "+", "8", "0", "0", "0", "0", "0", "3" >>,
    << "8", "0", "0", "0", "0", "0", "3" >>,
    << "8", "0", "0", "0", "0", "0", "0", "0", "3" >>,
    << "8", "0", "0", "0", "0", "0", "0", "g" >>,
    << "8", "0", "0", "0", "0", "0", "0", "é" >>,
    << "8", "0", "0", "0", "0", "0", "é" >> }
SecondTokens ==
  { << "1", "2", "F", "F" >>,
    << "0", "0", "c", "d" >>,
    << "+", "1", "2", "F" >>,
    << "-", "1", "2", "F" >>,
    << "1", "2", "F" >>,
    << "1", "2", "F", "F", "F" >>,
    << "1", "2", "G", "0" >> }
Separators == { << >>, << " " >>, << " ", " " >>, << "\t" >> }
Margins == { << << >>, << >> >>, << << " " >>, << "\t", " " >> >> }
LineTexts ==
  { tt \o << "0", "0", "0", "0", "0", "3", " ", "1", "2", "F", "F" >> : tt \in TypeTexts }
  \cup { m[1] \o a \o sep \o b \o m[2] :
           a \in FirstTokens, sep \in Separators, b \in SecondTokens, m \in Margins }
  \cup { << >>,
         << "8", "0", "0", "0", "0", "0", "0", "3", " ", "1", "2", "F", "F",
            " ", "0", "0", "0", "0" >> }

ParseLine ==
  \E text \in LineTexts :
    /\ phase = "idle"
    /\ op' = [name |-> "CodeLine::from_str", text |-> text]
    /\ out' = CodeLine_from_str(text)
    /\ phase' = "done"
    /\ UNCHANGED << dd, mem, mem0 >>

\* the texts of a cheat: up to three lines, some of them blank, some that do
\* not parse and some that parse to an address no statement can be made for
LineKinds ==
  { << "D", "0", "0", "0", "0", "0", "0", "3", " ", "0", "0", "F", "F" >>,
    << " ", "8", "1", "0", "0", "0", "0", "0", "a", " ", " ", "1", "2", "c", "d", "\t" >>,
    << "8", "0", "0", "0", "0", "0", "0", "2", " ", "1", "2", "F", "F" >>,
    << "8", "0", "0", "0", "0", "0", "0", "0", " ", "0", "0", "0", "1" >>,
    << "8", "0", "0", "0", "0", "0", "0", "3" >>,
    << "7", "0", "0", "0", "0", "0", "0", "3", " ", "0", "0", "0", "0" >>,
    << >>,
    << " ", "\t" >> }
BlankKinds == { << >>, << " ", "\t" >> }
LineSeqs ==
  { << a >> : a \in LineKinds }
  \cup { << a, b >> : a \in LineKinds, b \in LineKinds }
  \cup { << a, b, c >> : a \in LineKinds, b \in BlankKinds, c \in LineKinds }
RECURSIVE Joined(_, _, _)
Joined(ls, i, nl) ==
  IF i > Len(ls) THEN << >>
  ELSE ls[i] \o (IF i < Len(ls) THEN nl ELSE << >>) \o Joined(ls, i + 1, nl)
CheatTexts ==
  { Joined(ls, 1, << "\n" >>) \o end : ls \in LineSeqs, end \in { << >>, << "\n" >> } }
  \cup { Joined(ls, 1, << "\r", "\n" >>) : ls \in { l \in LineSeqs : Len(l) = 2 } }

ParseCode ==
  \E text \in CheatTexts :
    /\ phase = "idle"
    /\ op' = [name |-> "Code::from_str", text |-> text]
    /\ out' = Code_from_str(text)
    /\ phase' = "done"
    /\ UNCHANGED << dd, mem, mem0 >>

\* main.rs: read_to_string(opts.code)?.parse::<gameshark::Code>()?, then
\* gs_code_to_patch(&opts.name, code)?
Converted(d, name, code) ==
  IF ~IsOk(code) THEN code ELSE gs_code_to_patch(d, name, code.val)
try_main(d, name, text) == Converted(d, name, Code_from_str(text))

TryMain ==
  \E name \in Names, text \in CheatTexts :
    /\ phase = "idle"
    /\ op' = [name |-> "try_main", cheat |-> name, text |-> text]
    /\ out' = try_main(dd, name, text)
    /\ phase' = IF IsOk(out') THEN "emitted" ELSE "done"
    /\ UNCHANGED << dd, mem, mem0 >>

\* the statements that run_gameshark_cheats executes after the last operation
Program ==
  IF op.name \in {"gs_code_to_patch", "try_main"} THEN PatchStatements(out.val.lines, 1)
  ELSE out.val

\* the game calls run_gameshark_cheats with the generated statements in it
RunCheats ==
  /\ phase = "emitted"
  /\ mem' = Exec(Program, mem)
  /\ phase' = "ran"
  /\ UNCHANGED << dd, mem0, op, out >>

Next ==
  \/ Resolve \/ SizeOfType \/ FormatWrite \/ FormatCheck \/ GsCodeToPatch \/ RunCheats
  \/ ParseLine \/ ParseCode \/ TryMain

Spec == Init /\ [][Next]_vars

\* ================================================================ claims
\* what a GameShark does on the console: the w bytes at a, most significant
\* first
BigEndianByte(value, w, i) == IF w = 2 /\ i = 0 THEN value \div 256 ELSE value % 256
ConsoleWrite(m, a, w, value) ==
  [x \in DOMAIN m |-> IF a <= x /\ x < a + w THEN BigEndianByte(value, w, x - a) ELSE m[x]]
ConsoleRead(m, a, w) == IF w = 2 THEN m[a] * 256 + m[a + 1] ELSE m[a]

\* the location resolved for the address of the last operation, its size and
\* the claim's "locationSize - width - (address - location.address)"
OpLocation == addr_to_lvalue(dd, op.addr)
OpLocationSize == size_of_type(dd, OpLocation.val.typ).val
OpWidth == num_bytes(op.size)
OpSlack == OpLocationSize - OpWidth - (op.addr - OpLocation.val.addr)
OpFits == IsOk(OpLocation) /\ OpSlack >= 0
OpCrosses == IsOk(OpLocation) /\ OpSlack < 0

\* widthMask << (8 * q) and value << (8 * q), written byte by byte
MaskAt(w, q) == [i \in ByteIdx |-> IF q < i /\ i <= q + w THEN 255 ELSE 0]
ValueAt(value, q) ==
  [i \in ByteIdx |-> IF i = q + 1 THEN value % 256
                     ELSE IF i = q + 2 THEN value \div 256 ELSE 0]
Complement(x) == [i \in ByteIdx |-> 255 - x[i]]

Statements(text) == SelectSeq(text, LAMBDA it : it.k # "space")

\* C1: after a successful emitWrite, executing the emitted statements leaves
\* the memory with exactly the bytes a .. a+w-1 replaced by the big-endian
\* bytes of the value.
C1_WriteReplacesExactlyItsBytes ==
  (op.name = "format_write" /\ phase = "ran")
    => mem = ConsoleWrite(mem0, op.addr, OpWidth, op.value)

\* C2: when the access fits in the resolved location, the shift is
\* 8 * (locationSize - width - (address - location.address)), at most
\* 8 * (locationSize - width), and emitWrite emits the single statement
\* L = (L & ~(widthMask << shift)) | (value << shift);
C2_FittingWriteIsOneMaskedStatement ==
  (op.name = "format_write" /\ OpFits)
    => /\ lvalue_get_shift(dd, OpLocation.val, op.size, op.addr) = Ok(Some(8 * OpSlack))
       /\ (8 * OpSlack) % 8 = 0
       /\ 8 * OpSlack <= 8 * (OpLocationSize - OpWidth)
       /\ out = Ok(<< WriteStmt(OpLocation.val,
                                Complement(MaskAt(OpWidth, OpSlack)),
                                ValueAt(op.value, OpSlack)) >>)

C2_Witness ==
  /\ op.name = "format_write" /\ OpFits /\ OpSlack = 2 /\ op.size = "Bits16"
  /\ IsOk(out) /\ out.val[1].or_value = << 0, 0, 205, 171, 0, 0, 0, 0 >>

\* C3: a 16-bit write that does not fit in the location resolved for a is
\* emitted as two statements: the high byte at shift 0 into that location,
\* one space, the 8-bit write of the low byte into the location resolved
\* for a + 1.
C3_CrossingWriteIsTwoStatements ==
  (op.name = "format_write" /\ op.size = "Bits16" /\ OpCrosses /\ IsOk(out))
    => /\ Len(out.val) = 3
       /\ out.val[1] = WriteStmt(OpLocation.val, Complement(MaskAt(1, 0)),
                                 ValueAt(op.value \div 256, 0))
       /\ out.val[2] = Space
       /\ out.val[3].k = "write"
       /\ Ok(out.val[3].lvalue) = addr_to_lvalue(dd, op.addr + 1)

\* C4: emitWrite and emitCheck terminate with a result or an error, and the
\* output holds at most two statements, whatever the address.
C4_AtMostOneSplit ==
  (op.name \in {"format_write", "format_check"})
    => /\ out.t \in {"Ok", "Err"}
       /\ IsOk(out) => Len(Statements(out.val)) <= 2

\* C5: when a check line is followed by a write line, the write line changes
\* the memory if and only if the emitted check holds: every statement of the
\* write line is guarded.
CheckLineHolds(m) ==
  \A i \in 1 .. Len(out.val.lines[4].text.c_source) :
    out.val.lines[4].text.c_source[i].k = "if"
      => EvalCheck(m, out.val.lines[4].text.c_source[i])

C5_WriteLineIsGuarded ==
  (op.name = "gs_code_to_patch" /\ Len(op.code) = 2 /\ phase = "ran")
    => mem = IF CheckLineHolds(mem0)
             THEN Exec(out.val.lines[5].text.c_source, mem0)
             ELSE mem0

\* C6 (as claimed): on boundary crossing the if for the location at
\* address + 1 (value & 0xFF) comes first and the if for the location at
\* address (value >> 8) comes second.
C6_LowByteCheckFirst ==
  (op.name = "format_check" /\ OpCrosses /\ IsOk(out))
    => /\ Ok(out.val[1].lvalue) = addr_to_lvalue(dd, op.addr + 1)
       /\ out.val[Len(out.val)] =
            CheckStmt(OpLocation.val, MaskAt(1, 0), out.val[1].cmp,
                      ValueAt(op.value \div 256, 0))

\* C6 (amended): on boundary crossing the if for the location at address,
\* comparing value >> 8 at shift 0, comes first; one space and the output of
\* the 8-bit check of value & 0xFF at address + 1 follow it.
C6_HighByteCheckFirst ==
  (op.name = "format_check" /\ OpCrosses /\ IsOk(out))
    => /\ out.val[1] = CheckStmt(OpLocation.val, MaskAt(1, 0),
                                 IF op.check_eq THEN "==" ELSE "!=",
                                 ValueAt(op.value \div 256, 0))
       /\ out.val[2] = Space
       /\ Ok(SubSeq(out.val, 3, Len(out.val)))
            = format_check(dd, "Bits8", op.value % 256, op.addr + 1, op.check_eq)

C6_Witness ==
  /\ op.name = "format_check" /\ OpCrosses /\ IsOk(out) /\ op.value = 43981
  /\ Len(out.val) = 3
  /\ out.val[1].lvalue.addr = op.addr /\ out.val[3].lvalue.addr = op.addr + 1
  /\ out.val[1].value[1] = 171 /\ out.val[3].and_mask # MaskAt(1, 0)

\* C7: for an access that fits, emitCheck emits exactly
\* if ((L & (widthMask << shift)) OP (value << shift)) with the shift of
\* emitWrite, and the guard holds exactly when the bytes at the address
\* compare to the value as OP requires.
C7_FittingCheckComparesItsBytes ==
  (op.name = "format_check" /\ OpFits)
    => /\ out = Ok(<< CheckStmt(OpLocation.val, MaskAt(OpWidth, OpSlack),
                                IF op.check_eq THEN "==" ELSE "!=",
                                ValueAt(op.value, OpSlack)) >>)
       /\ EvalCheck(mem, out.val[1])
            <=> ((ConsoleRead(mem, op.addr, OpWidth) = op.value) <=> op.check_eq)
       /\ IsOk(format_write(dd, op.size, op.value, op.addr))
       /\ format_write(dd, op.size, op.value, op.addr).val[1].or_value = out.val[1].value

C7_Witness ==
  /\ op.name = "format_check" /\ OpFits /\ OpSlack > 0 /\ ~op.check_eq
  /\ IsOk(out) /\ ~EvalCheck(mem, out.val[1])

\* C8: after a 16-bit check-not-equal the following code executes if and
\* only if the 16-bit big-endian value at the address is not the value, also
\* when the check is emitted as successive ifs.
C8_NotEqual16Guard ==
  (op.name = "format_check" /\ op.size = "Bits16" /\ ~op.check_eq /\ IsOk(out))
    => ((\A i \in 1 .. Len(out.val) : out.val[i].k = "if" => EvalCheck(mem, out.val[i]))
          <=> ConsoleRead(mem, op.addr, 2) # op.value)

\* C9: a Location returned by resolve is an Integer or Float cell that
\* contains the target address.
C9_LocationContainsAddress ==
  (op.name = "addr_to_lvalue" /\ IsOk(out))
    => /\ out.val.typ.k \in {"Int", "Float"}
       /\ out.val.addr <= op.addr
       /\ op.addr < out.val.addr + size_of_type(dd, out.val.typ).val

\* the declaration found by the floor lookup, when it is a variable whose
\* size is known and the address lies in its storage
OwnerIndex == RevFind({j \in 1 .. Len(dd.decls) : dd.decls[j].addr <= op.addr})
OwnerSpan == size_of_type(dd, dd.decls[OwnerIndex].typ)
InDeclSpan ==
  /\ OwnerIndex # 0
  /\ dd.decls[OwnerIndex].kind = "Var"
  /\ IsOk(OwnerSpan)
  /\ op.addr < dd.decls[OwnerIndex].addr + OwnerSpan.val

\* C10 (as claimed): for every address within a declaration's span resolve
\* returns a Location whose size is at most the span.
C10_ResolveInSpanReturnsLocation ==
  (op.name = "addr_to_lvalue" /\ InDeclSpan)
    => /\ IsOk(out)
       /\ size_of_type(dd, out.val.typ).val <= OwnerSpan.val

\* C10 (amended): for every address within a declaration's span resolve
\* terminates; it fails with PointerAssign when the cell at the address is a
\* pointer and otherwise returns a Location whose size is at most the span.
C10_ResolveInSpanLocationOrPointer ==
  (op.name = "addr_to_lvalue" /\ InDeclSpan)
    => \/ out = Err([tag |-> "PointerAssign", addr |-> op.addr])
       \/ /\ IsOk(out)
          /\ size_of_type(dd, out.val.typ).val <= OwnerSpan.val
          /\ size_of_type(dd, out.val.typ).val > 0

C10_Witness ==
  /\ op.name = "addr_to_lvalue" /\ InDeclSpan /\ IsOk(out)
  /\ out.val.kind.k = "StructField" /\ out.val.kind.struct_.kind.k = "ArrayIndex"
  /\ size_of_type(dd, out.val.typ).val < OwnerSpan.val

\* the declarations at or below the target of the last resolve, and the one
\* of them with the greatest address
FloorDecls == {d \in {dd.decls[j] : j \in 1 .. Len(dd.decls)} : d.addr <= op.addr}
FloorOwner == CHOOSE d \in FloorDecls : \A e \in FloorDecls : e.addr <= d.addr

\* the declaration named at the root of a location's path
RECURSIVE RootName(_)
RootName(lvalue) ==
  CASE lvalue.kind.k = "Ident" -> lvalue.kind.name
    [] lvalue.kind.k = "ArrayIndex" -> RootName(lvalue.kind.array)
    [] lvalue.kind.k = "StructField" -> RootName(lvalue.kind.struct_)

\* C11: resolve fails with NoDecl exactly when every declaration lies above
\* the target; otherwise its result is the narrowing of the declaration with
\* the greatest address at or below the target, which a returned Location
\* names at its root.
C11_FloorLookup ==
  (op.name = "addr_to_lvalue")
    => /\ (out = Err([tag |-> "NoDecl", addr |-> op.addr])) <=> (FloorDecls = {})
       /\ (FloorDecls # {} /\ FloorOwner.kind = "Var")
            => out = addr_accum_to_lvalue(dd,
                       LeftValue(Ident(FloorOwner.name), FloorOwner.typ, FloorOwner.addr),
                       op.addr, FloorOwner.addr)
       /\ IsOk(out) => RootName(out.val) = FloorOwner.name

C11_Witness ==
  /\ op.name = "addr_to_lvalue" /\ IsOk(out)
  /\ Cardinality(FloorDecls) > 1
  /\ \E j \in 1 .. Len(dd.decls) : dd.decls[j].addr > op.addr
  /\ FloorOwner.addr < op.addr
  /\ RootName(out.val) = FloorOwner.name

\* C12: when the declaration found by the floor lookup is a function,
\* resolve fails with FnPatch at every offset from the function's start.
C12_FunctionOwnerFails ==
  (op.name = "addr_to_lvalue" /\ FloorDecls # {} /\ FloorOwner.kind = "Fn")
    => out = Err([tag |-> "FnPatch", addr |-> op.addr])

C12_Witness ==
  /\ op.name = "addr_to_lvalue" /\ FloorDecls # {} /\ FloorOwner.kind = "Fn"
  /\ op.addr > FloorOwner.addr
  /\ out = Err([tag |-> "FnPatch", addr |-> op.addr])

\* ---- the narrowing as the design describes it, one step at a time
NoChild == [none |-> TRUE]
IsComposite(typ) == typ.k \in {"Struct", "AnonStruct"}
MissingComposite(typ) == typ.k = "Struct" /\ typ.name \notin DOMAIN dd.structs
FieldsOf(typ) == IF typ.k = "AnonStruct" THEN typ.fields ELSE dd.structs[typ.name]

\* the fields of a composite node that start at or before the target, and
\* the one of them with the greatest offset, as a Location
FieldsAtOrBelow(node) ==
  {i \in 1 .. Len(FieldsOf(node.typ)) : node.addr + FieldsOf(node.typ)[i].offset <= op.addr}
GreatestField(node) ==
  FieldsOf(node.typ)[CHOOSE i \in FieldsAtOrBelow(node) :
                       \A j \in FieldsAtOrBelow(node) :
                         FieldsOf(node.typ)[j].offset <= FieldsOf(node.typ)[i].offset]
FieldChild(node) ==
  LeftValue(StructFieldAccess(node, GreatestField(node).name), GreatestField(node).typ,
            node.addr + GreatestField(node).offset)

\* the element of an array node that the target falls in, as a Location
ElementSize(node) == size_of_type(dd, node.typ.element_type)
ElementIndex(node) == (op.addr - node.addr) \div ElementSize(node).val
ElementChild(node) ==
  LeftValue(ArrayIndex(node, ElementIndex(node)), node.typ.element_type,
            node.addr + ElementIndex(node) * ElementSize(node).val)

StepChild(node) ==
  IF IsComposite(node.typ)
  THEN IF MissingComposite(node.typ) \/ FieldsAtOrBelow(node) = {}
       THEN NoChild ELSE FieldChild(node)
  ELSE IF node.typ.k = "Array" /\ IsOk(ElementSize(node)) /\ ElementSize(node).val > 0
          /\ ElementIndex(node) < node.typ.num_elements
       THEN ElementChild(node)
       ELSE NoChild

\* the nodes the narrowing of the last resolve goes through
RECURSIVE NodesFrom(_)
NodesFrom(node) ==
  {node} \cup (IF StepChild(node) = NoChild THEN {} ELSE NodesFrom(StepChild(node)))
VisitedNodes ==
  IF op.name = "addr_to_lvalue" /\ FloorDecls # {} /\ FloorOwner.kind = "Var"
  THEN NodesFrom(LeftValue(Ident(FloorOwner.name), FloorOwner.typ, FloorOwner.addr))
  ELSE {}

\* the nodes on the path of a Location, the Location itself included
RECURSIVE Trail(_)
Trail(lvalue) ==
  {lvalue} \cup CASE lvalue.kind.k = "Ident" -> {}
                  [] lvalue.kind.k = "ArrayIndex" -> Trail(lvalue.kind.array)
                  [] lvalue.kind.k = "StructField" -> Trail(lvalue.kind.struct_)

\* C13: at every composite step of a resolve the result is NoStruct when the
\* named composite is missing, NoField when no field starts at or before
\* the target, and otherwise the narrowing of the field with the greatest
\* offset at or before the target, at address current + offset; every
\* field-access node of a returned Location is that field.
C13_CompositeStep ==
  (op.name = "addr_to_lvalue")
    => /\ \A n \in VisitedNodes :
            IsComposite(n.typ)
              => out = IF MissingComposite(n.typ)
                       THEN Err([tag |-> "NoStruct", name |-> n.typ.name])
                       ELSE IF FieldsAtOrBelow(n) = {}
                       THEN Err([tag |-> "NoField", addr |-> op.addr])
                       ELSE addr_accum_to_lvalue(dd, FieldChild(n), op.addr,
                                                 FieldChild(n).addr)
       /\ IsOk(out)
            => \A n \in Trail(out.val) :
                 n.kind.k = "StructField"
                   => /\ ~MissingComposite(n.kind.struct_.typ)
                      /\ n = FieldChild(n.kind.struct_)

C13_Witness ==
  /\ op.name = "addr_to_lvalue" /\ IsOk(out)
  /\ \E n \in Trail(out.val) :
       /\ n.kind.k = "StructField" /\ n.kind.field_name = "b"
       /\ n \in VisitedNodes /\ op.addr > n.addr
       /\ Cardinality(FieldsAtOrBelow(n.kind.struct_)) = 2

\* C14: at every array step of a resolve (element size known and not zero)
\* the index is floor((target - current) / elementSize); the result is
\* ArrayOutOfBounds for that array when index >= count and otherwise the
\* narrowing of the element at current + index * elementSize; every
\* array-index node of a returned Location has index < count.
C14_ArrayStep ==
  (op.name = "addr_to_lvalue")
    => /\ \A n \in VisitedNodes :
            (n.typ.k = "Array" /\ IsOk(ElementSize(n)) /\ ElementSize(n).val > 0)
              => out = IF ElementIndex(n) >= n.typ.num_elements
                       THEN Err([tag |-> "ArrayOutOfBounds", addr |-> op.addr,
                                 lvalue |-> n])
                       ELSE addr_accum_to_lvalue(dd, ElementChild(n), op.addr,
                                                 ElementChild(n).addr)
       /\ IsOk(out)
            => \A n \in Trail(out.val) :
                 n.kind.k = "ArrayIndex"
                   => /\ n.kind.index < n.kind.array.typ.num_elements
                      /\ IsOk(ElementSize(n.kind.array))
                      /\ n = ElementChild(n.kind.array)

C14_Witness ==
  /\ op.name = "addr_to_lvalue" /\ IsOk(out)
  /\ \E n \in Trail(out.val) :
       /\ n.kind.k = "ArrayIndex" /\ n.kind.index = 1
       /\ ElementSize(n.kind.array) = Ok(2)
       /\ op.addr = n.addr + 1
       /\ n \in VisitedNodes

\* ---- every object of the layout: the declarations, and inside them every
\* field of a known composite and every element of an array of known size
RECURSIVE ObjectsIn(_)
ObjectsIn(node) ==
  {node} \cup
    (IF IsComposite(node.typ) /\ ~MissingComposite(node.typ)
     THEN UNION { ObjectsIn(LeftValue(StructFieldAccess(node, FieldsOf(node.typ)[i].name),
                                      FieldsOf(node.typ)[i].typ,
                                      node.addr + FieldsOf(node.typ)[i].offset))
                  : i \in 1 .. Len(FieldsOf(node.typ)) }
     ELSE IF node.typ.k = "Array" /\ IsOk(ElementSize(node))
     THEN UNION { ObjectsIn(LeftValue(ArrayIndex(node, i), node.typ.element_type,
                                      node.addr + i * ElementSize(node).val))
                  : i \in 0 .. (node.typ.num_elements - 1) }
     ELSE {})
AllObjects ==
  UNION { ObjectsIn(LeftValue(Ident(dd.decls[j].name), dd.decls[j].typ, dd.decls[j].addr))
          : j \in 1 .. Len(dd.decls) }

\* the arrays of known element size that is not zero, the address one element past the end
\* of an array, and the objects outside the array that start after its
\* start and at or before that address
AllArrays ==
  {o \in AllObjects : o.typ.k = "Array" /\ IsOk(ElementSize(o)) /\ ElementSize(o).val > 0}
PastEnd(array) == array.addr + array.typ.num_elements * ElementSize(array).val
StartingBy(array) ==
  {o \in AllObjects : array \notin Trail(o) /\ array.addr < o.addr /\ o.addr <= PastEnd(array)}
IsOutOfBounds(r) == r.t = "Err" /\ r.err.tag = "ArrayOutOfBounds"

\* C15 (as claimed): resolving the address one element past the end of any
\* array of the layout fails with ArrayOutOfBounds.
C15_PastEndAlwaysFails ==
  (op.name = "addr_to_lvalue")
    => \A array \in AllArrays : op.addr = PastEnd(array) => IsOutOfBounds(out)

\* C15 (amended): resolving the address one element past the end of an array
\* whose elements take storage
\* fails with ArrayOutOfBounds, for that array or one that encloses it, when
\* no other declaration, field or element starts after the array's start and
\* at or before that address; when one does, the address is resolved outside
\* the array and the result is not ArrayOutOfBounds for it.
C15_PastEndFailsUnlessFollowed ==
  (op.name = "addr_to_lvalue")
    => \A array \in AllArrays :
         op.addr = PastEnd(array)
           => IF StartingBy(array) = {}
              THEN IsOutOfBounds(out) /\ out.err.lvalue \in Trail(array)
                   /\ out.err.addr = op.addr
              ELSE /\ out # Err([tag |-> "ArrayOutOfBounds", addr |-> op.addr,
                                 lvalue |-> array])
                   /\ IsOk(out) => array \notin Trail(out.val)

C15_Witness ==
  /\ op.name = "addr_to_lvalue"
  /\ \E array \in AllArrays :
       /\ op.addr = PastEnd(array) /\ StartingBy(array) = {}
       /\ array.kind.k = "StructField"
       /\ out = Err([tag |-> "ArrayOutOfBounds", addr |-> op.addr, lvalue |-> array])

\* C16: a resolve whose narrowing reaches a location of Pointer type (a
\* declaration, a field or an array element) fails with PointerAssign, and
\* only then; no node of a returned Location has Pointer type, so the
\* pointee is never entered.
C16_PointerFails ==
  (op.name = "addr_to_lvalue")
    => /\ (\E n \in VisitedNodes : n.typ.k = "Pointer")
            <=> out = Err([tag |-> "PointerAssign", addr |-> op.addr])
       /\ IsOk(out) => \A n \in Trail(out.val) : n.typ.k # "Pointer"

C16_Witness ==
  /\ op.name = "addr_to_lvalue"
  /\ out = Err([tag |-> "PointerAssign", addr |-> op.addr])
  /\ \E n \in VisitedNodes :
       /\ n.typ = TypePointer(TypeStruct("W")) /\ n.kind.k = "StructField"
       /\ op.addr > n.addr

\* the nodes the narrowing of the address of the last resolve or emit goes
\* through, and whether one of them is of Ignored type or an array whose
\* element size is not known because of an Ignored type
OpNodes ==
  IF op.name \in {"addr_to_lvalue", "format_write", "format_check"}
     /\ FloorDecls # {} /\ FloorOwner.kind = "Var"
  THEN NodesFrom(LeftValue(Ident(FloorOwner.name), FloorOwner.typ, FloorOwner.addr))
  ELSE {}
IgnoredError == Err([tag |-> "IgnoredType"])
TouchesIgnored ==
  \E n \in OpNodes : \/ n.typ.k = "Ignored"
                     \/ n.typ.k = "Array" /\ ElementSize(n) = IgnoredError

\* C17: a resolve or emit whose narrowing touches an Ignored type returns the
\* IgnoredType error as a value, also when the touching happens at
\* address + 1 of a boundary-crossing emit; no returned Location and no
\* location of an emitted statement has Ignored type.
C17_IgnoredIsAnErrorValue ==
  (op.name \in {"addr_to_lvalue", "format_write", "format_check"})
    => /\ TouchesIgnored => out = IgnoredError
       /\ (op.name # "addr_to_lvalue" /\ OpCrosses /\ op.addr + 1 < AddrLimit
           /\ addr_to_lvalue(dd, op.addr + 1) = IgnoredError)
            => out = IgnoredError
       /\ (op.name = "addr_to_lvalue" /\ IsOk(out)) => out.val.typ.k # "Ignored"
       /\ (op.name # "addr_to_lvalue" /\ IsOk(out))
            => \A i \in 1 .. Len(out.val) :
                 out.val[i] # Space => out.val[i].lvalue.typ.k # "Ignored"

C17_Witness ==
  /\ op.name = "format_check" /\ out = IgnoredError
  /\ \E n \in OpNodes : /\ n.typ.k = "Ignored" /\ n.kind.k = "StructField"
                        /\ n.kind.field_name = "i" /\ op.addr = n.addr

\* ---- the size of a type as the design defines it
RECURSIVE SpecSizeOf(_)
\* the fields whose size is not known, and the sum of the sizes of the fields
FailingFields(fields) == {i \in 1 .. Len(fields) : ~IsOk(SpecSizeOf(fields[i].typ))}
RECURSIVE SumUpTo(_, _)
SumUpTo(fields, n) ==
  IF n = 0 THEN 0 ELSE SumUpTo(fields, n - 1) + SpecSizeOf(fields[n].typ).val
SpecSizeOfFields(fields) ==
  IF FailingFields(fields) = {} THEN Ok(SumUpTo(fields, Len(fields)))
  ELSE SpecSizeOf(fields[CHOOSE i \in FailingFields(fields) :
                           \A j \in FailingFields(fields) : i <= j].typ)
SpecSizeOf(typ) ==
  CASE typ.k = "Int" -> Ok(typ.num_bytes)
    [] typ.k = "Pointer" -> Ok(8)
    [] typ.k = "Float" -> Ok(4)
    [] typ.k = "Array" ->
         IF IsOk(SpecSizeOf(typ.element_type))
         THEN Ok(SpecSizeOf(typ.element_type).val * typ.num_elements)
         ELSE SpecSizeOf(typ.element_type)
    [] typ.k = "AnonStruct" -> SpecSizeOfFields(typ.fields)
    [] typ.k = "Struct" ->
         IF typ.name \in DOMAIN dd.structs THEN SpecSizeOfFields(dd.structs[typ.name])
         ELSE Err([tag |-> "NoStruct", name |-> typ.name])
    [] typ.k = "Ignored" -> IgnoredError

\* C18: the size of an Int is its width, of a Pointer 8, of a Float 4, of
\* an Array the element size times the count, of a composite the sum of the
\* sizes of its fields in order, whatever their offsets; a named composite
\* missing from the registry gives NoStruct.
C18_SizeOfIsTheRecursiveSum ==
  (op.name = "size_of_type") => out = SpecSizeOf(op.typ)

C18_Witness ==
  /\ op.name = "size_of_type" /\ op.typ.k = "AnonStruct"
  /\ Len(op.typ.fields) = 2 /\ op.typ.fields[2].offset = 4
  /\ op.typ.fields[2].typ = TypeInt(FALSE, 2)
  /\ out = Ok(3)

\* ---- where a type tree holds an Ignored node
\* through array elements, composite fields and pointees; below a pointer a
\* named composite is not opened (a struct may point to itself)
RECURSIVE HoldsIgnored(_, _)
HoldsIgnored(typ, below_pointer) ==
  CASE typ.k = "Ignored" -> TRUE
    [] typ.k = "Array" -> HoldsIgnored(typ.element_type, below_pointer)
    [] typ.k = "Pointer" -> HoldsIgnored(typ.inner_type, TRUE)
    [] typ.k = "AnonStruct" ->
         \E i \in 1 .. Len(typ.fields) : HoldsIgnored(typ.fields[i].typ, below_pointer)
    [] typ.k = "Struct" ->
         /\ ~below_pointer
         /\ typ.name \in DOMAIN dd.structs
         /\ \E i \in 1 .. Len(dd.structs[typ.name]) :
              HoldsIgnored(dd.structs[typ.name][i].typ, below_pointer)
    [] OTHER -> FALSE

\* through array elements and composite fields only
RECURSIVE ReachesIgnored(_)
ReachesIgnored(typ) ==
  CASE typ.k = "Ignored" -> TRUE
    [] typ.k = "Array" -> ReachesIgnored(typ.element_type)
    [] typ.k = "AnonStruct" ->
         \E i \in 1 .. Len(typ.fields) : ReachesIgnored(typ.fields[i].typ)
    [] typ.k = "Struct" ->
         /\ typ.name \in DOMAIN dd.structs
         /\ \E i \in 1 .. Len(dd.structs[typ.name]) :
              ReachesIgnored(dd.structs[typ.name][i].typ)
    [] OTHER -> FALSE

\* a named composite missing from the registry, through elements and fields
RECURSIVE ReachesMissing(_)
ReachesMissing(typ) ==
  CASE typ.k = "Array" -> ReachesMissing(typ.element_type)
    [] typ.k = "AnonStruct" ->
         \E i \in 1 .. Len(typ.fields) : ReachesMissing(typ.fields[i].typ)
    [] typ.k = "Struct" ->
         \/ typ.name \notin DOMAIN dd.structs
         \/ \E i \in 1 .. Len(dd.structs[typ.name]) :
              ReachesMissing(dd.structs[typ.name][i].typ)
    [] OTHER -> FALSE

RECURSIVE PathText(_)
PathText(lvalue) ==
  CASE lvalue.kind.k = "Ident" -> << [s |-> lvalue.kind.name] >>
    [] lvalue.kind.k = "ArrayIndex" ->
         PathText(lvalue.kind.array)
           \o << [s |-> "["], [n |-> lvalue.kind.index], [s |-> "]"] >>
    [] lvalue.kind.k = "StructField" ->
         PathText(lvalue.kind.struct_) \o << [s |-> "."], [s |-> lvalue.kind.field_name] >>
Wrapper == [s |-> "*(uint32_t *) &"]
Wrapped(lvalue) ==
  IF lvalue.typ.k = "Float" THEN << Wrapper >> \o PathText(lvalue) ELSE PathText(lvalue)
WrapperCount(text) == Cardinality({i \in 1 .. Len(text) : text[i] = Wrapper})

\* C20: in the text of every emitted statement the location is written as
\* *(uint32_t *) & followed by the whole path exactly when the location is a
\* Float, on both sides of a write and inside a check, and nowhere else in
\* the path; the shift of a fitting access to a Float is computed with
\* size 4.
C20_FloatIsReinterpreted ==
  (op.name \in {"format_write", "format_check"} /\ IsOk(out))
    => \A i \in 1 .. Len(out.val) :
         out.val[i] # Space
           => /\ StatementText(out.val[i])
                   = IF out.val[i].k = "write"
                     THEN Wrapped(out.val[i].lvalue) \o << [s |-> " = ("] >>
                          \o Wrapped(out.val[i].lvalue)
                          \o << [s |-> " & "], [x |-> out.val[i].and_mask],
                                [s |-> ") | "], [x |-> out.val[i].or_value],
                                [s |-> ";"] >>
                     ELSE << [s |-> "if (("] >> \o Wrapped(out.val[i].lvalue)
                          \o << [s |-> " & "], [x |-> out.val[i].and_mask],
                                [s |-> ") "], [s |-> out.val[i].cmp], [s |-> " "],
                                [x |-> out.val[i].value], [s |-> ")"] >>
              /\ WrapperCount(StatementText(out.val[i]))
                   = IF out.val[i].lvalue.typ.k = "Float"
                     THEN (IF out.val[i].k = "write" THEN 2 ELSE 1)
                     ELSE 0
              /\ (out.val[i].lvalue.typ.k = "Float" /\ OpFits /\ out.val[i].k = "write")
                   => out.val[i].or_value
                        = ValueAt(op.value,
                                  4 - OpWidth - (op.addr - out.val[i].lvalue.addr))

C20_Witness ==
  /\ op.name = "format_write" /\ IsOk(out) /\ Len(out.val) = 1 /\ op.size = "Bits16"
  /\ out.val[1].lvalue.typ = TypeFloat
  /\ out.val[1].lvalue.kind.k = "StructField"
  /\ out.val[1].lvalue.kind.struct_.kind.k = "StructField"
  /\ op.addr = out.val[1].lvalue.addr + 1
  /\ StatementText(out.val[1])[1] = Wrapper
  /\ WrapperCount(StatementText(out.val[1])) = 2
  /\ out.val[1].or_value = << 0, 205, 171, 0, 0, 0, 0, 0 >>

\* ------------------------------------------------ claims about the parser
IsHexDigit(c) == \E v \in 1 .. 16 : c = HexUpper[v] \/ c = HexLower[v]
IsBlank(c) == c \in {" ", "\t", "\n", "\r"}
DigitValue(c) == (CHOOSE v \in 1 .. 16 : c = HexUpper[v] \/ c = HexLower[v]) - 1
UpperOf(c) == IF IsHexDigit(c) THEN HexUpper[DigitValue(c) + 1] ELSE c

\* "TTXXXXXX VVVV": eight hex digits from i, four hex digits from j, whitespace
\* between them and nothing but whitespace around them
ShapedAt(t, i, j) ==
  /\ i + 8 < j
  /\ j + 3 <= Len(t)
  /\ \A k \in 1 .. Len(t) :
       IF (i <= k /\ k < i + 8) \/ (j <= k /\ k < j + 4)
       THEN IsHexDigit(t[k]) ELSE IsBlank(t[k])
WellFormed(t) == \E i \in 1 .. Len(t), j \in 1 .. Len(t) : ShapedAt(t, i, j)
FirstAt(t) == CHOOSE i \in 1 .. Len(t) : \E j \in 1 .. Len(t) : ShapedAt(t, i, j)
SecondAt(t) == CHOOSE j \in 1 .. Len(t) : ShapedAt(t, FirstAt(t), j)
RECURSIVE ValueOfDigits(_, _, _)
ValueOfDigits(t, i, n) ==
  IF n = 0 THEN 0 ELSE ValueOfDigits(t, i, n - 1) * 16 + DigitValue(t[i + n - 1])

ParsedLine == op.name = "CodeLine::from_str"
LineTT == ValueOfDigits(op.text, FirstAt(op.text), 2)
LineOffset == ValueOfDigits(op.text, FirstAt(op.text) + 2, 6)
LineVVVV == ValueOfDigits(op.text, SecondAt(op.text), 4)
LineLowByte == ValueOfDigits(op.text, SecondAt(op.text) + 2, 2)
KindOfType(tt) ==
  CASE tt = 128 -> "Write8"
    [] tt = 129 -> "Write16"
    [] tt = 208 -> "IfEq8"
    [] tt = 209 -> "IfEq16"
    [] tt = 210 -> "IfNotEq8"
    [] tt = 211 -> "IfNotEq16"
    [] OTHER -> "none"
IsWide(kind) == kind \in {"Write16", "IfEq16", "IfNotEq16"}

\* C21: the TT byte of a well-formed line selects the operation: 0x80 write-8,
\* 0x81 write-16, 0xD0 / 0xD1 check-equal 8 / 16, 0xD2 / 0xD3 check-not-equal
\* 8 / 16; every other TT fails with CodeTypeError
C21_CodeTypeSelectsOperation ==
  (ParsedLine /\ WellFormed(op.text))
    => IF KindOfType(LineTT) # "none"
       THEN IsOk(out) /\ out.val.op = KindOfType(LineTT)
       ELSE out = Err([tag |-> "CodeTypeError"])

C21_Witness ==
  /\ ParsedLine /\ WellFormed(op.text)
  /\ LineTT = 210 /\ op.text[FirstAt(op.text)] = "d"
  /\ IsOk(out) /\ out.val.op = "IfNotEq8"

C21_WitnessUnknownType ==
  /\ ParsedLine /\ WellFormed(op.text)
  /\ LineTT = 130
  /\ out = Err([tag |-> "CodeTypeError"])

\* C22: the address of an accepted line is the low 24 bits of its first token,
\* its value is VVVV for a 16-bit operation and the low byte of VVVV for an
\* 8-bit one; the absolute address is that offset above the base of RAM, the
\* base's top byte followed by the offset's three, so it stays within 32 bits
C22_AddressAndValueOfLine ==
  /\ (ParsedLine /\ WellFormed(op.text) /\ IsOk(out))
       => /\ out.val.addr = LineOffset
          /\ out.val.addr < 16777216
          /\ out.val.value = IF IsWide(out.val.op) THEN LineVVVV ELSE LineLowByte
  /\ (op.name = "gs_code_to_patch" /\ Len(op.code) = 1)
       => /\ RamBase <= op.code[1].addr + RamBase
          /\ op.code[1].addr + RamBase <= RamBase + MaxOffset
          /\ RamBase + MaxOffset < AddrLimit
          /\ IF op.code[1].op \in WriteOps
             THEN /\ IsOk(out) = IsOk(format_write(dd, OpSize(op.code[1].op), op.code[1].value,
                                                   op.code[1].addr + RamBase))
                  /\ IsOk(out)
                       => PatchStatements(out.val.lines, 1)
                            = format_write(dd, OpSize(op.code[1].op), op.code[1].value,
                                           op.code[1].addr + RamBase).val
                  /\ ~IsOk(out)
                       => out = format_write(dd, OpSize(op.code[1].op), op.code[1].value,
                                             op.code[1].addr + RamBase)
             ELSE /\ IsOk(out) = IsOk(format_check(dd, OpSize(op.code[1].op), op.code[1].value,
                                                   op.code[1].addr + RamBase,
                                                   op.code[1].op \in {"IfEq8", "IfEq16"}))
                  /\ IsOk(out)
                       => PatchStatements(out.val.lines, 1)
                            = format_check(dd, OpSize(op.code[1].op), op.code[1].value,
                                           op.code[1].addr + RamBase,
                                           op.code[1].op \in {"IfEq8", "IfEq16"}).val
                  /\ ~IsOk(out)
                       => out = format_check(dd, OpSize(op.code[1].op), op.code[1].value,
                                             op.code[1].addr + RamBase,
                                             op.code[1].op \in {"IfEq8", "IfEq16"})

C22_Witness ==
  /\ ParsedLine /\ WellFormed(op.text) /\ IsOk(out)
  /\ out.val.op = "IfEq16"
  /\ LineOffset = 16777214 /\ out.val.addr = 16777214
  /\ out.val.value = 4863

C22_WitnessLowByte ==
  /\ ParsedLine /\ WellFormed(op.text) /\ IsOk(out)
  /\ out.val.op = "Write8"
  /\ LineVVVV = 4863 /\ out.val.value = 255

\* the tokens of the last line given to the parser, as the claims count them
LineTokens == split_whitespace(op.text)
TokensFit ==
  /\ Len(LineTokens) = 2
  /\ Len(LineTokens[1]) = 8
  /\ Len(LineTokens[2]) = 4
AllHex(token) == \A k \in 1 .. Len(token) : IsHexDigit(token[k])
Passed == IsOk(out) \/ out = Err([tag |-> "CodeTypeError"])

\* C23: a line is accepted only if, trimmed, it is exactly 8 hex digits,
\* whitespace and exactly 4 hex digits; a wrong token count or token length
\* fails with FormatError and a token with a character that is no hex digit
\* fails with IntegerParseError
C23_AcceptedOnlyIfWellFormed ==
  ParsedLine
    => /\ Passed => WellFormed(op.text)
       /\ ~TokensFit => out = Err([tag |-> "FormatError"])
       /\ (TokensFit /\ ~(AllHex(LineTokens[1]) /\ AllHex(LineTokens[2])))
            => (~IsOk(out) /\ out.err.tag = "ParseIntError")

\* C24: the rendering of a parsed line is the uppercase of its two tokens
\* separated by one space
C24_RoundTrip ==
  (ParsedLine /\ IsOk(out))
    => CodeLine_fmt(out.val)
         = [k \in 1 .. Len(LineTokens[1]) |-> UpperOf(LineTokens[1][k])]
           \o << " " >>
           \o [k \in 1 .. Len(LineTokens[2]) |-> UpperOf(LineTokens[2][k])]

\* the lines of a text: what lies between line feeds, named by the position
\* before their first character
Breaks(t) == {0, Len(t) + 1} \cup {i \in 1 .. Len(t) : t[i] = "\n"}
NextBreak(t, a) == CHOOSE b \in Breaks(t) : b > a /\ \A c \in Breaks(t) : c > a => b <= c
Segment(t, a) == SubSeq(t, a + 1, NextBreak(t, a) - 1)
NonBlankStarts(t) ==
  { a \in Breaks(t) \ {Len(t) + 1} :
      \E k \in 1 .. Len(Segment(t, a)) : ~IsBlank(Segment(t, a)[k]) }
RECURSIVE InOrder(_)
InOrder(S) ==
  IF S = {} THEN << >>
  ELSE << CHOOSE m \in S : \A x \in S : m <= x >>
       \o InOrder(S \ {CHOOSE m \in S : \A x \in S : m <= x})
LineResults(t) ==
  [k \in 1 .. Cardinality(NonBlankStarts(t))
     |-> CodeLine_from_str(Segment(t, InOrder(NonBlankStarts(t))[k]))]
CodeParsed == op.name = "Code::from_str"

\* C25: parsing a cheat returns the operations of its non-blank lines in
\* order; blank lines and the whitespace around a line are ignored; if a
\* non-blank line fails to parse, the whole parse fails with the error of the
\* first such line
C25_CodeIsItsNonBlankLines ==
  CodeParsed
    => IF \A k \in DOMAIN LineResults(op.text) : IsOk(LineResults(op.text)[k])
       THEN out = Ok([k \in DOMAIN LineResults(op.text) |-> LineResults(op.text)[k].val])
       ELSE out = LineResults(op.text)[
                    CHOOSE k \in DOMAIN LineResults(op.text) :
                      /\ ~IsOk(LineResults(op.text)[k])
                      /\ \A j \in 1 .. (k - 1) : IsOk(LineResults(op.text)[j])]

C25_Witness ==
  /\ CodeParsed
  /\ Cardinality(Breaks(op.text)) = 4
  /\ Cardinality(NonBlankStarts(op.text)) = 2
  /\ op.text[1] = " "
  /\ IsOk(out) /\ Len(out.val) = 2
  /\ out.val[1] = CodeLine("Write16", 10, 4813)
  /\ out.val[2] = CodeLine("IfEq8", 3, 255)

C25_WitnessFirstError ==
  /\ CodeParsed
  /\ Cardinality(NonBlankStarts(op.text)) = 2
  /\ LineResults(op.text)[1] = Err([tag |-> "CodeTypeError"])
  /\ LineResults(op.text)[2] = Err([tag |-> "FormatError"])
  /\ out = Err([tag |-> "CodeTypeError"])

\* ------------------------------------------- claims about the assembler
\* C26: the hunk of a patch is the context line "void run_gameshark_cheats(void) {",
\* an added blank line, an added line "    /* <name> */", one added line per
\* operation in order (one line also for an operation that crosses a
\* boundary), and a blank context line; its header is @@ -4,2 +4,<n+4> @@
C26_HunkShape ==
  (op.name = "gs_code_to_patch" /\ IsOk(out))
    => /\ Len(out.val.lines) = Len(op.code) + 4
       /\ out.val.old_range = [start |-> 4, count |-> 2]
       /\ out.val.new_range = [start |-> 4, count |-> Len(op.code) + 4]
       /\ out.val.lines[1] = [k |-> "Context", text |-> "void run_gameshark_cheats(void) {"]
       /\ out.val.lines[2] = [k |-> "Add", indent |-> 0, text |-> ""]
       /\ out.val.lines[3] = [k |-> "Add", indent |-> 4, text |-> [name_comment |-> op.cheat]]
       /\ \A i \in 1 .. Len(op.code) :
            /\ out.val.lines[3 + i].k = "Add"
            /\ out.val.lines[3 + i].indent = 4
            /\ out.val.lines[3 + i].text.c_source
                 = (IF op.code[i].op \in WriteOps
                    THEN format_write(dd, OpSize(op.code[i].op), op.code[i].value,
                                      op.code[i].addr + RamBase)
                    ELSE format_check(dd, OpSize(op.code[i].op), op.code[i].value,
                                      op.code[i].addr + RamBase,
                                      op.code[i].op \in {"IfEq8", "IfEq16"})).val
       /\ out.val.lines[Len(op.code) + 4] = [k |-> "Context", text |-> ""]

C26_Witness ==
  /\ op.name = "gs_code_to_patch" /\ IsOk(out)
  /\ Len(op.code) = 2
  /\ out.val.new_range.count = 6
  /\ Len(out.val.lines) = 6
  /\ Cardinality({ j \in 1 .. Len(out.val.lines[5].text.c_source) :
                     out.val.lines[5].text.c_source[j].k = "write" }) = 2

\* a line of the text as it was written, without the whitespace around it
Inked(t) == {k \in 1 .. Len(t) : ~IsBlank(t[k])}
Trimmed(t) ==
  SubSeq(t, CHOOSE a \in Inked(t) : \A k \in Inked(t) : a <= k,
            CHOOSE b \in Inked(t) : \A k \in Inked(t) : k <= b)
OriginalLine(i) == Trimmed(Segment(op.text, InOrder(NonBlankStarts(op.text))[i]))

\* C27: the comment before each generated line holds the line of the cheat as
\* it was written, for every accepted input
C27_CommentIsOriginalLine ==
  (op.name = "try_main" /\ IsOk(out))
    => \A i \in 1 .. Cardinality(NonBlankStarts(op.text)) :
         out.val.lines[3 + i].text.comment = OriginalLine(i)

\* the lines of the last cheat for which statements can be generated, and
\* those for which they cannot
Generates(i) == IsOk(gs_line_to_c(dd, op.code[i]))

\* C28: an error for one line of a cheat aborts that line only: the statements
\* generated for the other lines are not discarded by gs_code_to_patch
C28_OtherLinesAreKept ==
  op.name = "gs_code_to_patch"
    => \A i \in 1 .. Len(op.code) :
         Generates(i)
           => /\ "val" \in DOMAIN out
              /\ \E j \in 2 .. (Len(out.val.lines) - 1) :
                   /\ out.val.lines[j].indent = 4
                   /\ out.val.lines[j].text = gs_line_to_c(dd, op.code[i]).val

\* C29: every error value of the resolver, the size calculator and the
\* generator carries the target address or the symbolic path
C29_ErrorsCarryAddressOrPath ==
  (op.name \in {"addr_to_lvalue", "size_of_type", "format_write", "format_check"}
   /\ out.t = "Err")
    => ("addr" \in DOMAIN out.err \/ "lvalue" \in DOMAIN out.err)

\* -------------------------------------------------------- the no-fault claim
ToPatchErrors ==
  {"FnPatch", "IgnoredType", "NoDecl", "NoStruct", "NoField", "ArrayOutOfBounds",
   "PointerAssign"}

\* C30: for every layout, also one with an empty composite, an array whose
\* elements have size zero or gaps between declarations, and every address,
\* resolving, generating a write and generating a check return a result or
\* one of the errors of ToPatchError and never fault
C30_NeverFaults ==
  op.name \in {"addr_to_lvalue", "format_write", "format_check"}
    => \/ IsOk(out)
       \/ out.t = "Err" /\ out.err.tag \in ToPatchErrors

====
